---- MODULE Spec2Model ----
(***************************************************************************)
(* Warm-call transfer: the Agent A console (RoomPage of                    *)
(* frontend/pages/index.js, lines 354-963), its two room handles, the      *)
(* browser's speech synthesis and the API proxies it calls; and the        *)
(* LiveRoom component (frontend/components/LiveRoom.jsx) that holds the    *)
(* source room.  Spec is the console with LiveRoom left in its initial     *)
(* state; SpecLiveRoom is the component with the console left in its;      *)
(* SpecAudio is the connect path of both handles side by side; SpecApi is  *)
(* the transfer form, the request it sends and the transfer proxy;         *)
(* SpecProxy is the three proxies serving any client.                      *)
(*                                                                         *)
(* React state is one variable per useState/useRef.  Every asynchronous    *)
(* activation (an awaited fetch, an awaited connect, a setTimeout          *)
(* callback, an utterance event) is a separate action; the position of     *)
(* the activation started for transfer t is pc[t], mv[t], lg[t], utt[t].   *)
(***************************************************************************)
EXTENDS Naturals, FiniteSets, Sequences, TLC

\* Number of transfers the operator starts on one console.
MaxTransfers == 2

Tids == 1..MaxTransfers

\* useRef(null) / useState(null): the empty reference.
NULL == 0

VARIABLES
  isTransferring,    \* useState(false)
  transferStep,      \* useState('')
  transferError,     \* useState('')
  transferData,      \* useState(null): NULL or the transfer whose result is stored
  isMovingCaller,    \* useState(false)
  isSpeaking,        \* useState(false)
  speechSupported,   \* 'speechSynthesis' in window
  callerIdentity,    \* form field
  primaryRoomRef,    \* useRef(null), passed as ref to <LiveRoom>
  secondaryRoomRef,  \* useRef(null): NULL or the transfer whose Room it holds
  primaryConn,       \* connection state of the source (LiveRoom) handle
  rooms,             \* rooms[t]: connection state of the Room created for transfer t
  handoffMic,        \* handoffMic[t]: enableMicrophone() succeeded in that Room
  nextTid,           \* number of the next transfer to be started
  pc,                \* pc[t]: position of initiateWarmTransfer's activation for t
  utt,               \* utt[t]: the SpeechSynthesisUtterance created for t
  mv,                \* mv[t]: position of moveCallerToAgentB's activation for t
  lg,                \* lg[t]: position of completeTransfer's activation for t
  srcDiscBy,         \* history: which path of t called disconnect on the source handle
  cancelledAt,       \* history: the phase t was in when cancelTransfer ran
  lateSpeech         \* history: speakSummary ran for t after t was cancelled

vars == << isTransferring, transferStep, transferError, transferData, isMovingCaller,
           isSpeaking, speechSupported, callerIdentity, primaryRoomRef, secondaryRoomRef,
           primaryConn, rooms, handoffMic, nextTid, pc, utt, mv, lg, srcDiscBy, cancelledAt,
           lateSpeech >>

(***************************************************************************)
(* LiveRoom (frontend/components/LiveRoom.jsx): one mounted component, the *)
(* Room objects it creates, and its asynchronous activations.              *)
(***************************************************************************)
\* Number of Room objects one LiveRoom component creates.
MaxRooms == 2

Rids == 1..MaxRooms

\* useState(null) / setError(null): no error.
NoError == "null"

\* Remote participants of a room.
Participants == { "caller" }

VARIABLES
  mounted,            \* the component is mounted
  effectLive,         \* the effect of lines 27-39 has a clean-up registered
  room,               \* useState(null): NULL or a Room
  isConnecting,       \* useState(false)
  isConnected,        \* useState(false)
  error,              \* useState(null): NoError or a message
  participants,       \* useState([])
  localAudioEnabled,  \* useState(false)
  roomRef,            \* useRef(null): NULL or a Room
  roomState,          \* roomState[r]: connection state of Room r
  remote,             \* remote[r]: room.remoteParticipants of Room r
  nextRid,            \* number of the next Room to be created
  cpc,                \* cpc[r]: position of the connectToRoom activation that created r
  dpc,                \* dpc[r]: position of the disconnectFromRoom activation awaiting r
  tog                 \* position of the toggleMicrophone activation

lrVars == << mounted, effectLive, room, isConnecting, isConnected, error, participants,
             localAudioEnabled, roomRef, roomState, remote, nextRid, cpc, dpc, tog >>

(***************************************************************************)
(* Status strings written by setTransferStep.                              *)
(***************************************************************************)
StepNone == ""
StepCreating == "Creating transfer room..."
StepConnecting == "Connecting to handoff room..."
StepConnected == "Connected to Agent B room. Waiting for Agent B..."
StepUnsupported == "Speech synthesis not supported. Please manually explain to Agent B."
StepSpeaking == "Speaking summary to Agent B..."
StepReady == "Summary delivered. Ready to complete transfer."
StepSpeechFailed == "Speech failed. Please manually explain to Agent B."
StepLegacyDone == "Transfer completed! Agent B should now handle the caller."
StepMoving == "Moving caller to Agent B..."
StepTokenGenerated == "Caller token generated. In production, caller client would now reconnect..."
StepRelocDone == "Transfer completed! Caller is now with Agent B."

Steps == { StepNone, StepCreating, StepConnecting, StepConnected, StepUnsupported,
           StepSpeaking, StepReady, StepSpeechFailed, StepLegacyDone, StepMoving,
           StepTokenGenerated, StepRelocDone }

\* transferStep.includes('Ready to complete'): of the strings above only
\* StepReady contains that (case-sensitive) substring.
IncludesReadyToComplete(step) == step = StepReady

\* The two completion buttons are rendered.
CompletionButtonsShown == isTransferring /\ IncludesReadyToComplete(transferStep)

\* identity.trim() is non-empty
Trimmed(s) == IF s = "  " THEN "" ELSE s

CallerInputs == { "", "  ", "caller-9" }

(***************************************************************************)
(* API proxies.  Outcome of the axios call to the backend -> the proxy's   *)
(* response, and the message the console derives from it.                  *)
(***************************************************************************)
BackendOutcomes == { "ok", "errorDetail", "errorNoDetail", "unreachable", "other" }

\* error.response.data?.detail of a backend error response
BackendDetail == "backend detail"

\* 502 stands for whatever status the backend answered with.
ProxyResponse(outcome, fallback, unexpected) ==
  CASE outcome = "ok"            -> [ok |-> TRUE,  status |-> 200, message |-> ""]
    [] outcome = "errorDetail"   -> [ok |-> FALSE, status |-> 502, message |-> BackendDetail]
    [] outcome = "errorNoDetail" -> [ok |-> FALSE, status |-> 502, message |-> fallback]
    [] outcome = "unreachable"   -> [ok |-> FALSE, status |-> 503,
          message |-> "Cannot connect to backend service. Please ensure the backend is running."]
    [] OTHER                     -> [ok |-> FALSE, status |-> 500, message |-> unexpected]

TransferHandler(outcome) ==
  ProxyResponse(outcome, "Failed to initiate transfer",
                "An unexpected error occurred during transfer")

MoveCallerHandler(outcome) ==
  ProxyResponse(outcome, "Failed to generate caller token",
                "An unexpected error occurred while moving caller")

\* errorData.message || fallback
MessageOr(resp, fallback) == IF resp.message # "" THEN resp.message ELSE fallback

\* fetch itself rejecting (the proxy is not reachable from the browser)
FetchRejected == "Failed to fetch"

TransferFailures ==
  { MessageOr(TransferHandler(o), "Transfer failed") : o \in BackendOutcomes \ {"ok"} }
    \cup { FetchRejected }

MoveCallerFailures ==
  { MessageOr(MoveCallerHandler(o), "Failed to generate caller token") :
      o \in BackendOutcomes \ {"ok"} } \cup { FetchRejected }

\* setTransferError(`Failed to move caller: ${err.message}`)
MoveCallerError(msg) == "Failed to move caller: " \o msg

ConnectError == "could not establish signal connection"

(***************************************************************************)
(* The source handle.  RoomPage renders <LiveRoom ref={primaryRoomRef}/>,  *)
(* and LiveRoom is a plain function component that takes { wsUrl, token }: *)
(* it neither forwards the ref nor exposes an imperative handle, so React  *)
(* never assigns primaryRoomRef.current.                                   *)
(***************************************************************************)
LiveRoomRefForwarded == "Room"

LiveRoomRef == "null"

\* if (primaryRoomRef.current) await primaryRoomRef.current.disconnect()
DisconnectPrimary(conn) == IF primaryRoomRef # "null" THEN "disconnected" ELSE conn

PrimaryDisconnectCalled == primaryRoomRef # "null"

\* room.disconnect() on the Room of transfer t
DisconnectRoom(rs, t) ==
  IF t = NULL THEN rs
  ELSE [rs EXCEPT ![t] = CASE rs[t] = "connecting" -> "aborted"
                           [] rs[t] = "connected"  -> "closed"
                           [] OTHER                -> rs[t]]

\* The latest transfer started on the console.
CurTid == nextTid - 1

(***************************************************************************)
(* The protocol state of transfer t, read off the activations.             *)
(***************************************************************************)
Phase(t) ==
  IF lg[t] # "idle" \/ mv[t] \in {"cleanupTimer", "done"} THEN "Finalizing"
  ELSE IF mv[t] \in {"fetch", "ackTimer"} THEN "RelocatingCaller"
  ELSE CASE pc[t] = "idle"        -> "Idle"
         [] pc[t] = "fetch"       -> "Initiating"
         [] pc[t] \in {"connect", "mic"} -> "AwaitingHandoffConnect"
         [] pc[t] = "speechTimer" -> "SummaryPending"
         [] pc[t] \in {"fetchFailed", "connectFailed"} -> "Failed"
         [] OTHER ->
              IF utt[t] = "speaking" THEN "Speaking"
              ELSE IF utt[t] \in {"ended", "errored"} /\ mv[t] = "idle" THEN "ReadyToComplete"
              ELSE IF mv[t] = "failed" THEN "RelocationFailed"
              ELSE "Unsupported"

\* LiveRoom after its first render, before its effect has run.
(***************************************************************************)
(* The transfer form of the console, the request initiateWarmTransfer      *)
(* sends, and the three API proxies (pages/api/transfer.js, token.js,      *)
(* move-caller.js) between the browser and the backend.                    *)
(***************************************************************************)
\* Longest text typed into a form field.
MaxLen == 2

\* A text is a sequence of symbols: a blank or a letter.
Chars == { " ", "x" }

Texts == UNION { [1..n -> Chars] : n \in 0..MaxLen }

\* JavaScript's undefined, as the value of a field.
Undefined == << "undefined" >>

\* 'Call transfer initiated by Agent A'
DefaultSummary == << "Call transfer initiated by Agent A" >>

\* router.query.roomId and the identity set when the page connected.
RoomId == << "room-1" >>
AgentIdentity == << "agent-1" >>

VARIABLES
  agentBIdentity,    \* useState(''): form field
  transcript,        \* useState(''): form field
  req,               \* the request a proxy handler is serving
  hpc,               \* position of that handler
  backendReq,        \* body of the axios.post the handler made
  backendCalls,      \* number of axios.post calls made for the request
  backendOutcome,    \* how that call settled
  responses          \* responses the handler sent for the request

apiVars == << agentBIdentity, transcript, req, hpc, backendReq, backendCalls,
              backendOutcome, responses >>

allVars == << vars, lrVars, apiVars >>

\* String.prototype.trim(): leading and trailing blanks removed.
RECURSIVE TrimStart(_)
TrimStart(s) == IF s # << >> /\ Head(s) = " " THEN TrimStart(Tail(s)) ELSE s

RECURSIVE TrimEnd(_)
TrimEnd(s) ==
  IF s # << >> /\ s[Len(s)] = " " THEN TrimEnd(SubSeq(s, 1, Len(s) - 1)) ELSE s

Trim(s) == TrimEnd(TrimStart(s))

\* !v for a field value: undefined and '' are falsy.
Falsy(v) == v = Undefined \/ v = << >>

\* JSON.stringify of an object, parsed again by the receiver: a key whose
\* value is undefined is not sent.
Json(obj) == [ k \in { f \in DOMAIN obj : obj[f] # Undefined } |-> obj[k] ]

\* body.f of a parsed body
Field(body, f) == IF f \in DOMAIN body THEN body[f] ELSE Undefined

Handlers == { "transfer", "token", "moveCaller" }

Methods == { "GET", "POST" }

\* Variant: a summary is sent with every request.
TransferBodyAlwaysSummary(agentB, notes) ==
  Json([ fromRoom |-> RoomId, agentA |-> AgentIdentity, agentB |-> agentB,
         transcript |-> IF Trim(notes) # << >> THEN Trim(notes) ELSE Undefined,
         summary |-> DefaultSummary ])

\* The body of the fetch('/api/transfer') in initiateWarmTransfer.
TransferBody(agentB, notes) ==
  Json([ fromRoom |-> RoomId, agentA |-> AgentIdentity, agentB |-> agentB,
         transcript |-> IF Trim(notes) # << >> THEN Trim(notes) ELSE Undefined,
         summary |-> IF Trim(notes) # << >> THEN Undefined ELSE DefaultSummary ])

\* The fields a handler requires.
Required(h) ==
  CASE h = "transfer" -> { "fromRoom", "agentA", "agentB" }
    [] h = "token"    -> { "identity", "room" }
    [] OTHER          -> { "callerIdentity", "newRoom" }

\* Variant: the transfer proxy does not look at agentB.
MissingRequiredButAgentB(r) ==
  \E f \in Required(r.handler) \ { "agentB" } : Falsy(Field(r.body, f))

\* if (!fromRoom || !agentA || !agentB) and its counterparts
MissingRequired(r) == \E f \in Required(r.handler) : Falsy(Field(r.body, f))

\* The body each handler posts to the backend.
BackendBody(r) ==
  CASE r.handler = "transfer" ->
         Json([ f \in { "fromRoom", "agentA", "agentB", "newRoom", "transcript", "summary" }
                  |-> Field(r.body, f) ])
    [] r.handler = "token" ->
         Json([ identity |-> Field(r.body, "identity"), room |-> Field(r.body, "room") ])
    [] OTHER ->
         Json([ identity |-> Field(r.body, "callerIdentity"),
                room |-> Field(r.body, "newRoom") ])

TokenHandler(outcome) ==
  ProxyResponse(outcome, "Failed to get token from backend", "An unexpected error occurred")

\* The catch block of a handler for the way the backend call settled.
HandlerCatch(h, outcome) ==
  CASE h = "transfer" -> TransferHandler(outcome)
    [] h = "token"    -> TokenHandler(outcome)
    [] OTHER          -> MoveCallerHandler(outcome)

MethodNotAllowed ==
  [ok |-> FALSE, status |-> 405, message |-> "This endpoint only accepts POST requests"]

MissingFields(h) ==
  [ok |-> FALSE, status |-> 400,
   message |-> CASE h = "transfer" -> "fromRoom, agentA, and agentB are required"
                 [] h = "token"    -> "Both identity and room are required"
                 [] OTHER          -> "callerIdentity and newRoom are required"]

\* A handler from its entry to its first await or return: the response it
\* sends at once, or "call" when it posts to the backend.  Destructuring a
\* body that is null throws inside the try; the catch finds neither
\* error.response nor error.request.
HandlerEntry(r) ==
  IF r.method # "POST" THEN [call |-> FALSE, response |-> MethodNotAllowed]
  ELSE IF r.isNull THEN [call |-> FALSE, response |-> HandlerCatch(r.handler, "other")]
  ELSE IF MissingRequired(r) THEN [call |-> FALSE, response |-> MissingFields(r.handler)]
  ELSE [call |-> TRUE, response |-> MethodNotAllowed]

NoRequest ==
  [origin |-> "none", handler |-> "transfer", method |-> "POST", isNull |-> FALSE,
   body |-> Json([ fromRoom |-> Undefined ])]

ApiInit ==
  /\ agentBIdentity = << >>
  /\ transcript = << >>
  /\ req = NoRequest
  /\ hpc = "idle"
  /\ backendReq = Json([ fromRoom |-> Undefined ])
  /\ backendCalls = 0
  /\ backendOutcome = "none"
  /\ responses = << >>

LiveRoomInit ==
  /\ mounted = TRUE
  /\ effectLive = FALSE
  /\ room = NULL
  /\ isConnecting = FALSE
  /\ isConnected = FALSE
  /\ error = NoError
  /\ participants = {}
  /\ localAudioEnabled = FALSE
  /\ roomRef = NULL
  /\ roomState = [r \in Rids |-> "none"]
  /\ remote = [r \in Rids |-> {}]
  /\ nextRid = 1
  /\ cpc = [r \in Rids |-> "idle"]
  /\ dpc = [r \in Rids |-> "idle"]
  /\ tog = "idle"

Init ==
  /\ isTransferring = FALSE
  /\ transferStep = StepNone
  /\ transferError = ""
  /\ transferData = NULL
  /\ isMovingCaller = FALSE
  /\ isSpeaking = FALSE
  /\ speechSupported \in BOOLEAN
  /\ callerIdentity = "caller-9"
  /\ primaryRoomRef = LiveRoomRef
  /\ secondaryRoomRef = NULL
  /\ primaryConn = "connected"
  /\ rooms = [t \in Tids |-> "none"]
  /\ handoffMic = [t \in Tids |-> FALSE]
  /\ nextTid = 1
  /\ pc = [t \in Tids |-> "idle"]
  /\ utt = [t \in Tids |-> "none"]
  /\ mv = [t \in Tids |-> "idle"]
  /\ lg = [t \in Tids |-> "idle"]
  /\ srcDiscBy = [t \in Tids |-> "none"]
  /\ cancelledAt = [t \in Tids |-> "no"]
  /\ lateSpeech = [t \in Tids |-> FALSE]
  /\ LiveRoomInit
  /\ ApiInit

(***************************************************************************)
(* initiateWarmTransfer, lines 437-505                                     *)
(***************************************************************************)
\* The operator fills the form (a non-blank Agent B identity: the button is
\* disabled otherwise) and clicks "Initiate Warm Transfer": the synchronous
\* part up to the awaited fetch('/api/transfer').
InitiateWarmTransfer(caller) ==
  /\ ~isTransferring
  /\ nextTid <= MaxTransfers
  /\ callerIdentity' = caller
  /\ isTransferring' = TRUE
  /\ transferError' = ""
  /\ transferStep' = StepCreating
  /\ pc' = [pc EXCEPT ![nextTid] = "fetch"]
  /\ nextTid' = nextTid + 1
  /\ UNCHANGED << transferData, isMovingCaller, isSpeaking, speechSupported,
                  primaryRoomRef, secondaryRoomRef, primaryConn, rooms, utt, mv, lg,
                  srcDiscBy, cancelledAt, lateSpeech >>

\* The transfer request succeeded: store the result, create the Room, start connecting.
TransferFetchOK(t) ==
  /\ pc[t] = "fetch"
  /\ TransferHandler("ok").ok
  /\ transferData' = t
  /\ transferStep' = StepConnecting
  /\ secondaryRoomRef' = t
  /\ rooms' = [rooms EXCEPT ![t] = "connecting"]
  /\ pc' = [pc EXCEPT ![t] = "connect"]
  /\ UNCHANGED << isTransferring, transferError, isMovingCaller, isSpeaking,
                  speechSupported, callerIdentity, primaryRoomRef, primaryConn, nextTid,
                  utt, mv, lg, srcDiscBy, cancelledAt, lateSpeech >>

\* catch (err): setTransferError(err.message); setTransferStep('')
InitiateCatch(t, msg, at) ==
  /\ transferError' = msg
  /\ transferStep' = StepNone
  /\ pc' = [pc EXCEPT ![t] = at]

\* Variant: the Room is created and connected before the response is checked.
TransferFetchFailOpensRoom(t, msg) ==
  /\ pc[t] = "fetch"
  /\ msg \in TransferFailures
  /\ InitiateCatch(t, msg, "fetchFailed")
  /\ secondaryRoomRef' = t
  /\ rooms' = [rooms EXCEPT ![t] = "connecting"]
  /\ UNCHANGED << isTransferring, transferData, isMovingCaller, isSpeaking,
                  speechSupported, callerIdentity, primaryRoomRef, primaryConn, nextTid,
                  utt, mv, lg, srcDiscBy, cancelledAt, lateSpeech >>

\* The transfer request failed (non-OK response, or fetch rejected).
TransferFetchFail(t, msg) ==
  /\ pc[t] = "fetch"
  /\ msg \in TransferFailures
  /\ InitiateCatch(t, msg, "fetchFailed")
  /\ UNCHANGED << isTransferring, transferData, isMovingCaller, isSpeaking,
                  speechSupported, callerIdentity, primaryRoomRef, secondaryRoomRef,
                  primaryConn, rooms, nextTid, utt, mv, lg, srcDiscBy, cancelledAt,
                  lateSpeech >>

\* await secondaryRoom.connect(...) resolved.
ConnectOK(t) ==
  /\ pc[t] = "connect"
  /\ rooms[t] = "connecting"
  /\ rooms' = [rooms EXCEPT ![t] = "connected"]
  /\ transferStep' = StepConnected
  /\ pc' = [pc EXCEPT ![t] = "mic"]
  /\ UNCHANGED << isTransferring, transferError, transferData, isMovingCaller,
                  isSpeaking, speechSupported, callerIdentity, primaryRoomRef,
                  secondaryRoomRef, primaryConn, nextTid, utt, mv, lg, srcDiscBy,
                  cancelledAt, lateSpeech >>

\* Variant: the connect error is swallowed and the activation goes on.
ConnectFailSwallowed(t) ==
  /\ pc[t] = "connect"
  /\ rooms[t] \in {"connecting", "aborted"}
  /\ rooms' = [rooms EXCEPT ![t] = IF rooms[t] = "connecting" THEN "failed" ELSE rooms[t]]
  /\ pc' = [pc EXCEPT ![t] = "mic"]
  /\ UNCHANGED << isTransferring, transferStep, transferError, transferData,
                  isMovingCaller, isSpeaking, speechSupported, callerIdentity,
                  primaryRoomRef, secondaryRoomRef, primaryConn, nextTid, utt, mv, lg,
                  srcDiscBy, cancelledAt, lateSpeech >>

\* Variant: the summary is spoken from a finally block, also after a failure.
ConnectFailThenSpeaks(t) ==
  /\ pc[t] = "connect"
  /\ rooms[t] \in {"connecting", "aborted"}
  /\ rooms' = [rooms EXCEPT ![t] = IF rooms[t] = "connecting" THEN "failed" ELSE rooms[t]]
  /\ InitiateCatch(t, ConnectError, "connectFailed")
  /\ utt' = [utt EXCEPT ![t] = "speaking"]
  /\ isSpeaking' = TRUE
  /\ UNCHANGED << isTransferring, transferData, isMovingCaller,
                  speechSupported, callerIdentity, primaryRoomRef, secondaryRoomRef,
                  primaryConn, nextTid, mv, lg, srcDiscBy, cancelledAt, lateSpeech >>

\* await secondaryRoom.connect(...) rejected: the provider refused, or the
\* Room was disconnected while connecting (the attempt is aborted).
ConnectFail(t) ==
  /\ pc[t] = "connect"
  /\ rooms[t] \in {"connecting", "aborted"}
  /\ rooms' = [rooms EXCEPT ![t] = IF rooms[t] = "connecting" THEN "failed" ELSE rooms[t]]
  /\ InitiateCatch(t, ConnectError, "connectFailed")
  /\ UNCHANGED << isTransferring, transferData, isMovingCaller, isSpeaking,
                  speechSupported, callerIdentity, primaryRoomRef, secondaryRoomRef,
                  primaryConn, nextTid, utt, mv, lg, srcDiscBy, cancelledAt, lateSpeech >>

\* Variant: a microphone failure reaches the outer catch of the activation.
MicFailureIsFatal(t, ok) ==
  /\ pc[t] = "mic"
  /\ handoffMic' = [handoffMic EXCEPT ![t] = ok]
  /\ IF ok THEN /\ pc' = [pc EXCEPT ![t] = "speechTimer"]
                /\ UNCHANGED << transferStep, transferError >>
           ELSE InitiateCatch(t, "Permission denied", "connectFailed")
  /\ UNCHANGED << isTransferring, transferData, isMovingCaller, isSpeaking,
                  speechSupported, callerIdentity, primaryRoomRef, secondaryRoomRef,
                  primaryConn, rooms, nextTid, utt, mv, lg, srcDiscBy, cancelledAt,
                  lateSpeech >>

\* enableMicrophone() settled, ok or not (its failure is caught and logged):
\* setTimeout(() => speakSummary(summary), 2000)
MicSettled(t, ok) ==
  /\ pc[t] = "mic"
  /\ handoffMic' = [handoffMic EXCEPT ![t] = ok]
  /\ pc' = [pc EXCEPT ![t] = "speechTimer"]
  /\ UNCHANGED << isTransferring, transferStep, transferError, transferData,
                  isMovingCaller, isSpeaking, speechSupported, callerIdentity,
                  primaryRoomRef, secondaryRoomRef, primaryConn, rooms, nextTid, utt,
                  mv, lg, srcDiscBy, cancelledAt, lateSpeech >>

(***************************************************************************)
(* speakSummary, lines 507-542, run by the 2000 ms timer                   *)
(***************************************************************************)
\* Timers of equal delay fire in the order they were set.
SpeechTimerDue(t) == pc[t] = "speechTimer" /\ \A u \in Tids : u < t => pc[u] # "speechTimer"

SpeakSummary(t) ==
  /\ SpeechTimerDue(t)
  /\ pc' = [pc EXCEPT ![t] = "done"]
  /\ IF ~speechSupported
       THEN /\ transferStep' = StepUnsupported
            /\ isTransferring' = FALSE
            /\ UNCHANGED << isSpeaking, utt, lateSpeech >>
       ELSE /\ transferStep' = StepSpeaking
            /\ isSpeaking' = TRUE
            /\ utt' = [utt EXCEPT ![t] = "speaking"]
            /\ lateSpeech' = [lateSpeech EXCEPT ![t] = cancelledAt[t] # "no"]
            /\ UNCHANGED isTransferring
  /\ UNCHANGED << transferError, transferData, isMovingCaller, speechSupported,
                  callerIdentity, primaryRoomRef, secondaryRoomRef, primaryConn, rooms,
                  nextTid, mv, lg, srcDiscBy, cancelledAt >>

\* The synthesis queue is first in, first out.
UtteranceDue(t) ==
  /\ utt[t] \in {"speaking", "cancelled"}
  /\ \A u \in Tids : u < t => utt[u] \notin {"speaking", "cancelled"}

\* utterance.onend
UtteranceEnd(t) ==
  /\ UtteranceDue(t)
  /\ utt' = [utt EXCEPT ![t] = IF utt[t] = "speaking" THEN "ended" ELSE "dropped"]
  /\ isSpeaking' = FALSE
  /\ transferStep' = StepReady
  /\ UNCHANGED << isTransferring, transferError, transferData, isMovingCaller,
                  speechSupported, callerIdentity, primaryRoomRef, secondaryRoomRef,
                  primaryConn, rooms, nextTid, pc, mv, lg, srcDiscBy, cancelledAt,
                  lateSpeech >>

\* utterance.onerror
UtteranceError(t) ==
  /\ UtteranceDue(t)
  /\ utt' = [utt EXCEPT ![t] = IF utt[t] = "speaking" THEN "errored" ELSE "dropped"]
  /\ isSpeaking' = FALSE
  /\ transferStep' = StepSpeechFailed
  /\ UNCHANGED << isTransferring, transferError, transferData, isMovingCaller,
                  speechSupported, callerIdentity, primaryRoomRef, secondaryRoomRef,
                  primaryConn, rooms, nextTid, pc, mv, lg, srcDiscBy, cancelledAt,
                  lateSpeech >>

(***************************************************************************)
(* completeTransfer ("Complete (Legacy)"), lines 544-571                   *)
(***************************************************************************)
CompleteTransfer ==
  /\ CompletionButtonsShown
  /\ primaryConn' = DisconnectPrimary(primaryConn)
  /\ srcDiscBy' = [srcDiscBy EXCEPT ![CurTid] =
                     IF PrimaryDisconnectCalled THEN "legacy" ELSE @]
  /\ transferStep' = StepLegacyDone
  /\ lg' = [lg EXCEPT ![CurTid] = "timer"]
  /\ UNCHANGED << isTransferring, transferError, transferData, isMovingCaller,
                  isSpeaking, speechSupported, callerIdentity, primaryRoomRef,
                  secondaryRoomRef, nextTid, rooms, pc, utt, mv, cancelledAt, lateSpeech >>

\* The 5000 ms clean-up timer of completeTransfer.
LegacyCleanup(t) ==
  /\ lg[t] = "timer"
  /\ rooms' = DisconnectRoom(rooms, secondaryRoomRef)
  /\ isTransferring' = FALSE
  /\ transferStep' = StepNone
  /\ lg' = [lg EXCEPT ![t] = "done"]
  /\ UNCHANGED << transferError, transferData, isMovingCaller, isSpeaking,
                  speechSupported, callerIdentity, primaryRoomRef, secondaryRoomRef,
                  primaryConn, nextTid, pc, utt, mv, srcDiscBy, cancelledAt, lateSpeech >>

(***************************************************************************)
(* moveCallerToAgentB ("Move Caller to Agent B"), lines 609-715            *)
(***************************************************************************)
\* The button is rendered and enabled.
MoveCallerEnabled ==
  /\ CompletionButtonsShown
  /\ ~isMovingCaller
  /\ Trimmed(callerIdentity) # ""

\* Variant: the error is reported but the activation goes on to the request.
MoveCallerRejectedStillSends ==
  /\ MoveCallerEnabled
  /\ transferData = NULL \/ Trimmed(callerIdentity) = ""
  /\ transferError' = "Missing transfer data or caller identity"
  /\ isMovingCaller' = TRUE
  /\ mv' = [mv EXCEPT ![CurTid] = "fetch"]
  /\ UNCHANGED << isTransferring, transferStep, transferData, isSpeaking,
                  speechSupported, callerIdentity, primaryRoomRef, secondaryRoomRef,
                  primaryConn, rooms, nextTid, pc, utt, lg, srcDiscBy, cancelledAt,
                  lateSpeech >>

\* Clicked without stored transfer data: the guard of lines 610-613.
MoveCallerRejected ==
  /\ MoveCallerEnabled
  /\ transferData = NULL \/ Trimmed(callerIdentity) = ""
  /\ transferError' = "Missing transfer data or caller identity"
  /\ UNCHANGED << isTransferring, transferStep, transferData, isMovingCaller,
                  isSpeaking, speechSupported, callerIdentity, primaryRoomRef,
                  secondaryRoomRef, primaryConn, rooms, nextTid, pc, utt, mv, lg,
                  srcDiscBy, cancelledAt, lateSpeech >>

\* Clicked with transfer data: the synchronous part up to fetch('/api/move-caller').
MoveCallerToAgentB ==
  /\ MoveCallerEnabled
  /\ transferData # NULL /\ Trimmed(callerIdentity) # ""
  /\ isMovingCaller' = TRUE
  /\ transferStep' = StepMoving
  /\ mv' = [mv EXCEPT ![transferData] = "fetch"]
  /\ UNCHANGED << isTransferring, transferError, transferData, isSpeaking,
                  speechSupported, callerIdentity, primaryRoomRef, secondaryRoomRef,
                  primaryConn, rooms, nextTid, pc, utt, lg, srcDiscBy, cancelledAt,
                  lateSpeech >>

\* The caller token was minted: setTimeout(<simulated caller move>, 2000)
CallerTokenOK(t) ==
  /\ mv[t] = "fetch"
  /\ MoveCallerHandler("ok").ok
  /\ transferStep' = StepTokenGenerated
  /\ mv' = [mv EXCEPT ![t] = "ackTimer"]
  /\ UNCHANGED << isTransferring, transferError, transferData, isMovingCaller,
                  isSpeaking, speechSupported, callerIdentity, primaryRoomRef,
                  secondaryRoomRef, primaryConn, rooms, nextTid, pc, utt, lg, srcDiscBy,
                  cancelledAt, lateSpeech >>

\* Variant: the catch also tears the handoff room down.
CallerTokenFailTearsDown(t, msg) ==
  /\ mv[t] = "fetch"
  /\ msg \in MoveCallerFailures
  /\ transferError' = MoveCallerError(msg)
  /\ isMovingCaller' = FALSE
  /\ mv' = [mv EXCEPT ![t] = "failed"]
  /\ rooms' = DisconnectRoom(rooms, secondaryRoomRef)
  /\ UNCHANGED << isTransferring, transferStep, transferData, isSpeaking,
                  speechSupported, callerIdentity, primaryRoomRef, secondaryRoomRef,
                  primaryConn, nextTid, pc, utt, lg, srcDiscBy, cancelledAt, lateSpeech >>

\* The caller-token request failed: the catch of lines 710-714.
CallerTokenFail(t, msg) ==
  /\ mv[t] = "fetch"
  /\ msg \in MoveCallerFailures
  /\ transferError' = MoveCallerError(msg)
  /\ isMovingCaller' = FALSE
  /\ mv' = [mv EXCEPT ![t] = "failed"]
  /\ UNCHANGED << isTransferring, transferStep, transferData, isSpeaking,
                  speechSupported, callerIdentity, primaryRoomRef, secondaryRoomRef,
                  primaryConn, rooms, nextTid, pc, utt, lg, srcDiscBy, cancelledAt,
                  lateSpeech >>

\* The 2000 ms timer standing for the caller's acknowledgement, lines 649-677:
\* disconnect the source handle, set the 3000 ms clean-up timer.
CallerMoved(t) ==
  /\ mv[t] = "ackTimer"
  /\ primaryConn' = DisconnectPrimary(primaryConn)
  /\ srcDiscBy' = [srcDiscBy EXCEPT ![t] =
                     IF PrimaryDisconnectCalled THEN "relocate" ELSE @]
  /\ transferStep' = StepRelocDone
  /\ mv' = [mv EXCEPT ![t] = "cleanupTimer"]
  /\ UNCHANGED << isTransferring, transferError, transferData, isMovingCaller,
                  isSpeaking, speechSupported, callerIdentity, primaryRoomRef,
                  secondaryRoomRef, nextTid, rooms, pc, utt, lg, cancelledAt, lateSpeech >>

\* The 3000 ms clean-up timer of moveCallerToAgentB, lines 660-669.
RelocationCleanup(t) ==
  /\ mv[t] = "cleanupTimer"
  /\ rooms' = DisconnectRoom(rooms, secondaryRoomRef)
  /\ isTransferring' = FALSE
  /\ isMovingCaller' = FALSE
  /\ transferStep' = StepNone
  /\ transferData' = NULL
  /\ mv' = [mv EXCEPT ![t] = "done"]
  /\ UNCHANGED << transferError, isSpeaking, speechSupported, callerIdentity,
                  primaryRoomRef, secondaryRoomRef, primaryConn, nextTid, pc, utt, lg,
                  srcDiscBy, cancelledAt, lateSpeech >>

(***************************************************************************)
(* cancelTransfer ("Cancel Transfer"), lines 717-735                       *)
(***************************************************************************)
\* window.speechSynthesis.cancel(): every queued utterance is removed; each
\* still gets its end or error event.
SpeechCancel(us) == [t \in Tids |-> IF us[t] = "speaking" THEN "cancelled" ELSE us[t]]

\* The part of the console's state that cancelTransfer reads and writes.
ConsoleState ==
  [ rooms |-> rooms, secondaryRoomRef |-> secondaryRoomRef, utt |-> utt,
    isSpeaking |-> isSpeaking, isTransferring |-> isTransferring,
    transferStep |-> transferStep, transferData |-> transferData,
    transferError |-> transferError, isMovingCaller |-> isMovingCaller ]

\* Variant: the handoff room is disconnected but the ref is not set to null.
CancelOutcomeKeepsRef(s) ==
  [ rooms |-> DisconnectRoom(s.rooms, s.secondaryRoomRef),
    secondaryRoomRef |-> s.secondaryRoomRef,
    utt |-> IF s.isSpeaking THEN SpeechCancel(s.utt) ELSE s.utt,
    isSpeaking |-> FALSE, isTransferring |-> FALSE, transferStep |-> StepNone,
    transferData |-> NULL, transferError |-> "", isMovingCaller |-> FALSE ]

\* One call of cancelTransfer on the state s.
CancelOutcome(s) ==
  [ rooms |-> DisconnectRoom(s.rooms, s.secondaryRoomRef),
    secondaryRoomRef |-> NULL,
    utt |-> IF s.isSpeaking THEN SpeechCancel(s.utt) ELSE s.utt,
    isSpeaking |-> FALSE, isTransferring |-> FALSE, transferStep |-> StepNone,
    transferData |-> NULL, transferError |-> "", isMovingCaller |-> FALSE ]

\* The "Cancel Transfer" button is rendered only in the progress panel.
CancelTransfer ==
  /\ isTransferring
  /\ LET o == CancelOutcome(ConsoleState)
     IN /\ rooms' = o.rooms
        /\ secondaryRoomRef' = o.secondaryRoomRef
        /\ utt' = o.utt
        /\ isSpeaking' = o.isSpeaking
        /\ isTransferring' = o.isTransferring
        /\ transferStep' = o.transferStep
        /\ transferData' = o.transferData
        /\ transferError' = o.transferError
        /\ isMovingCaller' = o.isMovingCaller
  /\ cancelledAt' = [cancelledAt EXCEPT ![CurTid] = Phase(CurTid)]
  /\ UNCHANGED << speechSupported, callerIdentity, primaryRoomRef, primaryConn, nextTid,
                  pc, mv, lg, srcDiscBy, lateSpeech >>

(***************************************************************************)
(* The provider drops the source connection (RoomEvent.Disconnected).      *)
(***************************************************************************)
ProviderDisconnectsSource ==
  /\ primaryConn = "connected"
  /\ primaryConn' = "disconnected"
  /\ UNCHANGED << isTransferring, transferStep, transferError, transferData,
                  isMovingCaller, isSpeaking, speechSupported, callerIdentity,
                  primaryRoomRef, secondaryRoomRef, rooms, nextTid, pc, utt, mv, lg,
                  srcDiscBy, cancelledAt, lateSpeech >>

(***************************************************************************)
(* LiveRoom.jsx                                                            *)
(***************************************************************************)
\* setError(`Failed to connect: ${err.message}`)
ConnectFailedError == "Failed to connect: could not establish signal connection"

\* setError(`Microphone error: ${err.message}`)
MicrophoneError == "Microphone error: Permission denied"

\* The state of the component that its handlers read and write.
LiveRoomState ==
  [ mounted |-> mounted, roomRef |-> roomRef, room |-> room,
    isConnecting |-> isConnecting, isConnected |-> isConnected, error |-> error,
    participants |-> participants, localAudioEnabled |-> localAudioEnabled,
    roomState |-> roomState, remote |-> remote ]

SetLiveRoom(s) ==
  /\ roomRef' = s.roomRef
  /\ room' = s.room
  /\ isConnecting' = s.isConnecting
  /\ isConnected' = s.isConnected
  /\ error' = s.error
  /\ participants' = s.participants
  /\ localAudioEnabled' = s.localAudioEnabled
  /\ roomState' = s.roomState
  /\ remote' = s.remote

\* A state setter called on an unmounted component has no effect.
Upd(s, cur, new) == IF s.mounted THEN new ELSE cur

\* room.disconnect() on Room r: a connection being established is aborted
\* (its connect() rejects), an established one is closed and its
\* Disconnected event follows.
RoomDisconnect(rs, r) ==
  [rs EXCEPT ![r] = CASE rs[r] = "connecting" -> "aborted"
                      [] rs[r] = "connected"  -> "closing"
                      [] OTHER                -> rs[r]]

\* The rooms with a provider connection that is up or being established.
LiveRooms(rs) == { r \in Rids : rs[r] \in {"connecting", "connected"} }

\* connectToRoom up to the awaited newRoom.connect(), lines 41-57; r is the
\* Room created by new Room().
ConnectBegin(s, r) ==
  [s EXCEPT !.isConnecting = Upd(s, @, TRUE),
            !.error = Upd(s, @, NoError),
            !.roomRef = r,
            !.room = Upd(s, @, r),
            !.roomState = [@ EXCEPT ![r] = "connecting"]]

\* disconnectFromRoom up to the awaited roomRef.current.disconnect(), lines 163-176.
DisconnectBegin(s) ==
  IF s.roomRef = NULL THEN s
  ELSE [s EXCEPT !.roomState = RoomDisconnect(@, s.roomRef)]

\* Variant: the listener marks the handle disconnected but keeps the list.
DisconnectedHandlerKeepsList(s, r) ==
  [s EXCEPT !.roomState = [@ EXCEPT ![r] = "disconnected"],
            !.remote = [@ EXCEPT ![r] = {}],
            !.isConnected = Upd(s, @, FALSE)]

\* The RoomEvent.Disconnected listener of Room r, lines 131-136.
DisconnectedHandler(s, r) ==
  [s EXCEPT !.roomState = [@ EXCEPT ![r] = "disconnected"],
            !.remote = [@ EXCEPT ![r] = {}],
            !.isConnected = Upd(s, @, FALSE),
            !.participants = Upd(s, @, {})]

\* Variant: the state is reset but the ref keeps the Room.
DisconnectFinishKeepsRef(s) ==
  [s EXCEPT !.room = Upd(s, @, NULL),
            !.isConnected = Upd(s, @, FALSE),
            !.participants = Upd(s, @, {}),
            !.localAudioEnabled = Upd(s, @, FALSE)]

\* disconnectFromRoom after the await (also when disconnect() threw), lines 178-186.
DisconnectFinish(s) ==
  [s EXCEPT !.roomRef = NULL,
            !.room = Upd(s, @, NULL),
            !.isConnected = Upd(s, @, FALSE),
            !.participants = Upd(s, @, {}),
            !.localAudioEnabled = Upd(s, @, FALSE)]

\* One call of disconnectFromRoom run to its end with nothing in between.
DisconnectOutcome(s) ==
  IF s.roomRef = NULL THEN s
  ELSE LET b == DisconnectBegin(s)
           e == IF b.roomState[s.roomRef] = "closing"
                  THEN DisconnectedHandler(b, s.roomRef) ELSE b
       IN DisconnectFinish(e)

\* The effect of lines 27-39 runs (first mount, a changed wsUrl or token, or
\* the development re-run of effects): the previous clean-up, if any, calls
\* disconnectFromRoom; then connectToRoom is called when both wsUrl and
\* token are present (c).
EffectRun(c) ==
  /\ mounted
  /\ effectLive \/ c
  /\ c => nextRid <= MaxRooms
  /\ LET s1 == IF effectLive THEN DisconnectBegin(LiveRoomState) ELSE LiveRoomState
         s2 == IF c THEN ConnectBegin(s1, nextRid) ELSE s1
     IN SetLiveRoom(s2)
  /\ dpc' = IF effectLive /\ roomRef # NULL THEN [dpc EXCEPT ![roomRef] = "await"] ELSE dpc
  /\ cpc' = IF c THEN [cpc EXCEPT ![nextRid] = "connect"] ELSE cpc
  /\ nextRid' = IF c THEN nextRid + 1 ELSE nextRid
  /\ effectLive' = c
  /\ UNCHANGED << mounted, tog >>

\* The component unmounts: the clean-up calls disconnectFromRoom.
Unmount ==
  /\ mounted
  /\ mounted' = FALSE
  /\ SetLiveRoom(IF effectLive THEN DisconnectBegin(LiveRoomState) ELSE LiveRoomState)
  /\ dpc' = IF effectLive /\ roomRef # NULL THEN [dpc EXCEPT ![roomRef] = "await"] ELSE dpc
  /\ effectLive' = FALSE
  /\ UNCHANGED << nextRid, cpc, tog >>

\* "Retry Connection", rendered whenever error is set (lines 249-260).
RetryConnection ==
  /\ mounted
  /\ error # NoError
  /\ nextRid <= MaxRooms
  /\ SetLiveRoom(ConnectBegin(LiveRoomState, nextRid))
  /\ cpc' = [cpc EXCEPT ![nextRid] = "connect"]
  /\ nextRid' = nextRid + 1
  /\ UNCHANGED << mounted, effectLive, dpc, tog >>

\* await newRoom.connect(wsUrl, token) resolved, lines 57-60.
RoomConnected(r) ==
  /\ cpc[r] = "connect"
  /\ roomState[r] = "connecting"
  /\ SetLiveRoom([LiveRoomState EXCEPT !.roomState = [@ EXCEPT ![r] = "connected"],
                                       !.isConnected = Upd(LiveRoomState, @, TRUE)])
  /\ cpc' = [cpc EXCEPT ![r] = "mic"]
  /\ UNCHANGED << mounted, effectLive, nextRid, dpc, tog >>

\* await newRoom.connect(wsUrl, token) rejected: catch and finally, lines 73-79.
RoomConnectFailed(r) ==
  /\ cpc[r] = "connect"
  /\ roomState[r] \in {"connecting", "aborted"}
  /\ SetLiveRoom([LiveRoomState EXCEPT
                    !.roomState = [@ EXCEPT ![r] = IF @ = "connecting" THEN "failed" ELSE @],
                    !.error = Upd(LiveRoomState, @, ConnectFailedError),
                    !.isConnected = Upd(LiveRoomState, @, FALSE),
                    !.isConnecting = Upd(LiveRoomState, @, FALSE)])
  /\ cpc' = [cpc EXCEPT ![r] = "done"]
  /\ UNCHANGED << mounted, effectLive, nextRid, dpc, tog >>

\* enableMicrophone() after the connect settled (ok or not: its failure is
\* caught and logged), then the finally block, lines 62-79.
LocalMicSettled(r, ok) ==
  /\ cpc[r] = "mic"
  /\ SetLiveRoom([LiveRoomState EXCEPT
                    !.localAudioEnabled = IF ok THEN Upd(LiveRoomState, @, TRUE) ELSE @,
                    !.isConnecting = Upd(LiveRoomState, @, FALSE)])
  /\ cpc' = [cpc EXCEPT ![r] = "done"]
  /\ UNCHANGED << mounted, effectLive, nextRid, dpc, tog >>

\* RoomEvent.Disconnected of Room r: the provider dropped the connection, or
\* a disconnect() called on r has closed it.
Disconnected(r) ==
  /\ roomState[r] \in {"connected", "closing"}
  /\ SetLiveRoom(DisconnectedHandler(LiveRoomState, r))
  /\ UNCHANGED << mounted, effectLive, nextRid, cpc, dpc, tog >>

\* await roomRef.current.disconnect() settled for the activation that called
\* it on Room r.
DisconnectSettled(r) ==
  /\ dpc[r] = "await"
  /\ roomState[r] # "closing"
  /\ SetLiveRoom(DisconnectFinish(LiveRoomState))
  /\ dpc' = [dpc EXCEPT ![r] = "done"]
  /\ UNCHANGED << mounted, effectLive, nextRid, cpc, tog >>

\* ParticipantConnected / ParticipantDisconnected of Room r:
\* updateParticipantsList(room), lines 144-161.
ParticipantsChanged(r, ps) ==
  /\ roomState[r] = "connected"
  /\ ps # remote[r]
  /\ SetLiveRoom([LiveRoomState EXCEPT !.remote = [@ EXCEPT ![r] = ps],
                                       !.participants = Upd(LiveRoomState, @, ps)])
  /\ UNCHANGED << mounted, effectLive, nextRid, cpc, dpc, tog >>

\* The mute button (rendered while isConnected): toggleMicrophone up to its
\* await, lines 190-199.
ToggleMicrophone ==
  /\ mounted
  /\ isConnected
  /\ room # NULL
  /\ tog = "idle"
  /\ tog' = IF localAudioEnabled THEN "disabling" ELSE "enabling"
  /\ UNCHANGED << mounted, effectLive, room, isConnecting, isConnected, error,
                  participants, localAudioEnabled, roomRef, roomState, remote, nextRid,
                  cpc, dpc >>

\* The awaited enable/disable settled, lines 196-206.
ToggleSettled(ok) ==
  /\ tog # "idle"
  /\ SetLiveRoom([LiveRoomState EXCEPT
                    !.localAudioEnabled = IF ok THEN Upd(LiveRoomState, @, tog = "enabling") ELSE @,
                    !.error = IF ok THEN @ ELSE Upd(LiveRoomState, @, MicrophoneError)])
  /\ tog' = "idle"
  /\ UNCHANGED << mounted, effectLive, nextRid, cpc, dpc >>

Next ==
  \/ \E c \in CallerInputs : InitiateWarmTransfer(c) /\ UNCHANGED << handoffMic, lrVars, apiVars >>
  \/ \E t \in Tids : TransferFetchOK(t) /\ UNCHANGED << handoffMic, lrVars, apiVars >>
  \/ \E t \in Tids : \E msg \in TransferFailures : TransferFetchFail(t, msg) /\ UNCHANGED << handoffMic, lrVars, apiVars >>
  \/ \E t \in Tids : ConnectOK(t) /\ UNCHANGED << handoffMic, lrVars, apiVars >>
  \/ \E t \in Tids : ConnectFail(t) /\ UNCHANGED << handoffMic, lrVars, apiVars >>
  \/ \E t \in Tids : \E ok \in BOOLEAN : MicSettled(t, ok) /\ UNCHANGED << lrVars, apiVars >>
  \/ \E t \in Tids : SpeakSummary(t) /\ UNCHANGED << handoffMic, lrVars, apiVars >>
  \/ \E t \in Tids : UtteranceEnd(t) /\ UNCHANGED << handoffMic, lrVars, apiVars >>
  \/ \E t \in Tids : UtteranceError(t) /\ UNCHANGED << handoffMic, lrVars, apiVars >>
  \/ CompleteTransfer /\ UNCHANGED << handoffMic, lrVars, apiVars >>
  \/ \E t \in Tids : LegacyCleanup(t) /\ UNCHANGED << handoffMic, lrVars, apiVars >>
  \/ MoveCallerRejected /\ UNCHANGED << handoffMic, lrVars, apiVars >>
  \/ MoveCallerToAgentB /\ UNCHANGED << handoffMic, lrVars, apiVars >>
  \/ \E t \in Tids : CallerTokenOK(t) /\ UNCHANGED << handoffMic, lrVars, apiVars >>
  \/ \E t \in Tids : \E msg \in MoveCallerFailures : CallerTokenFail(t, msg) /\ UNCHANGED << handoffMic, lrVars, apiVars >>
  \/ \E t \in Tids : CallerMoved(t) /\ UNCHANGED << handoffMic, lrVars, apiVars >>
  \/ \E t \in Tids : RelocationCleanup(t) /\ UNCHANGED << handoffMic, lrVars, apiVars >>
  \/ CancelTransfer /\ UNCHANGED << handoffMic, lrVars, apiVars >>
  \/ ProviderDisconnectsSource /\ UNCHANGED << handoffMic, lrVars, apiVars >>

Spec == Init /\ [][Next]_allVars

LiveRoomNext ==
  \/ \E c \in BOOLEAN : EffectRun(c) /\ UNCHANGED << vars, apiVars >>
  \/ Unmount /\ UNCHANGED << vars, apiVars >>
  \/ RetryConnection /\ UNCHANGED << vars, apiVars >>
  \/ \E r \in Rids : RoomConnected(r) /\ UNCHANGED << vars, apiVars >>
  \/ \E r \in Rids : RoomConnectFailed(r) /\ UNCHANGED << vars, apiVars >>
  \/ \E r \in Rids : \E ok \in BOOLEAN : LocalMicSettled(r, ok) /\ UNCHANGED << vars, apiVars >>
  \/ \E r \in Rids : Disconnected(r) /\ UNCHANGED << vars, apiVars >>
  \/ \E r \in Rids : DisconnectSettled(r) /\ UNCHANGED << vars, apiVars >>
  \/ \E r \in Rids : \E ps \in SUBSET Participants : ParticipantsChanged(r, ps) /\ UNCHANGED << vars, apiVars >>
  \/ ToggleMicrophone /\ UNCHANGED << vars, apiVars >>
  \/ \E ok \in BOOLEAN : ToggleSettled(ok) /\ UNCHANGED << vars, apiVars >>

\* The LiveRoom component on its own; the console stays in its initial state.
InitLiveRoom == Init /\ speechSupported = TRUE

SpecLiveRoom == InitLiveRoom /\ [][LiveRoomNext]_allVars

(***************************************************************************)
(* The transfer form, the request, and the proxy handlers                  *)
(***************************************************************************)
\* Values a client puts into a required field.
FieldInputs == { Undefined, << >>, << "x" >> }

\* Bodies a client sends to handler h: every choice of its required fields.
ClientBodies(h) == { Json(b) : b \in [Required(h) -> FieldInputs] }

\* The operator types into the form (shown while no transfer is in
\* progress): onChange of the Agent B field and of the notes field.
SetAgentBIdentity(b) ==
  /\ ~isTransferring
  /\ b # agentBIdentity
  /\ agentBIdentity' = b
  /\ UNCHANGED << transcript, req, hpc, backendReq, backendCalls, backendOutcome, responses >>
  /\ UNCHANGED vars

SetTranscript(n) ==
  /\ ~isTransferring
  /\ n # transcript
  /\ transcript' = n
  /\ UNCHANGED << agentBIdentity, req, hpc, backendReq, backendCalls, backendOutcome,
                  responses >>
  /\ UNCHANGED vars

\* initiateWarmTransfer called with a blank Agent B identity, lines 438-441.
InitiateRejected ==
  /\ ~isTransferring
  /\ Trim(agentBIdentity) = << >>
  /\ transferError' = "Please enter Agent B identity"
  /\ UNCHANGED << isTransferring, transferStep, transferData, isMovingCaller,
                  isSpeaking, speechSupported, callerIdentity, primaryRoomRef,
                  secondaryRoomRef, primaryConn, rooms, handoffMic, nextTid, pc, utt,
                  mv, lg, srcDiscBy, cancelledAt, lateSpeech >>
  /\ UNCHANGED apiVars

\* A request reaches a proxy handler.
Receive(r) ==
  /\ hpc \in {"idle", "done"}
  /\ req' = r
  /\ hpc' = "received"
  /\ backendCalls' = 0
  /\ backendOutcome' = "none"
  /\ responses' = << >>
  /\ backendReq' = Json([ fromRoom |-> Undefined ])

\* initiateWarmTransfer with an Agent B identity, up to the awaited fetch,
\* lines 437-463.
InitiateSends ==
  /\ Trim(agentBIdentity) # << >>
  /\ InitiateWarmTransfer(callerIdentity)
  /\ Receive([origin |-> "console", handler |-> "transfer", method |-> "POST",
              isNull |-> FALSE, body |-> TransferBody(agentBIdentity, transcript)])
  /\ UNCHANGED << agentBIdentity, transcript, handoffMic >>

\* Any other client calls a proxy.
ClientRequest(h, m, isNull, b) ==
  /\ Receive([origin |-> "client", handler |-> h, method |-> m, isNull |-> isNull,
              body |-> IF isNull THEN Json([ fromRoom |-> Undefined ]) ELSE b])
  /\ UNCHANGED << agentBIdentity, transcript >>
  /\ UNCHANGED vars

\* The handler runs to its first return or to the awaited axios.post.
HandlerRuns ==
  /\ hpc = "received"
  /\ LET e == HandlerEntry(req)
     IN IF e.call
          THEN /\ hpc' = "backend"
               /\ backendReq' = BackendBody(req)
               /\ backendCalls' = backendCalls + 1
               /\ UNCHANGED responses
          ELSE /\ hpc' = "done"
               /\ responses' = Append(responses, e.response)
               /\ UNCHANGED << backendReq, backendCalls >>
  /\ UNCHANGED << agentBIdentity, transcript, req, backendOutcome >>
  /\ UNCHANGED vars

\* The axios.post settled: res.status(200) or the catch block.
BackendSettles(o) ==
  /\ hpc = "backend"
  /\ hpc' = "done"
  /\ backendOutcome' = o
  /\ responses' = Append(responses, HandlerCatch(req.handler, o))
  /\ UNCHANGED << agentBIdentity, transcript, req, backendReq, backendCalls >>
  /\ UNCHANGED vars

ApiNext ==
  \/ \E b \in Texts : SetAgentBIdentity(b) /\ UNCHANGED lrVars
  \/ \E n \in Texts : SetTranscript(n) /\ UNCHANGED lrVars
  \/ InitiateRejected /\ UNCHANGED lrVars
  \/ InitiateSends /\ UNCHANGED lrVars
  \/ \E m \in Methods : \E isNull \in BOOLEAN : \E b \in ClientBodies("transfer") :
       ClientRequest("transfer", m, isNull, b) /\ UNCHANGED lrVars
  \/ HandlerRuns /\ UNCHANGED lrVars
  \/ \E o \in BackendOutcomes : BackendSettles(o) /\ UNCHANGED lrVars

\* The connect path of each handle: the handoff Room of a transfer from the
\* request to the spoken summary, and the Room of LiveRoom from the effect
\* to the settled microphone.
AudioNext ==
  \/ InitiateWarmTransfer(callerIdentity) /\ UNCHANGED << handoffMic, lrVars, apiVars >>
  \/ \E t \in Tids : TransferFetchOK(t) /\ UNCHANGED << handoffMic, lrVars, apiVars >>
  \/ \E t \in Tids : ConnectOK(t) /\ UNCHANGED << handoffMic, lrVars, apiVars >>
  \/ \E t \in Tids : \E ok \in BOOLEAN : MicSettled(t, ok) /\ UNCHANGED << lrVars, apiVars >>
  \/ \E t \in Tids : SpeakSummary(t) /\ UNCHANGED << handoffMic, lrVars, apiVars >>
  \/ \E t \in Tids : UtteranceEnd(t) /\ UNCHANGED << handoffMic, lrVars, apiVars >>
  \/ \E c \in BOOLEAN : EffectRun(c) /\ UNCHANGED << vars, apiVars >>
  \/ \E r \in Rids : RoomConnected(r) /\ UNCHANGED << vars, apiVars >>
  \/ \E r \in Rids : \E ok \in BOOLEAN : LocalMicSettled(r, ok) /\ UNCHANGED << vars, apiVars >>
  \/ \E r \in Rids : Disconnected(r) /\ UNCHANGED << vars, apiVars >>
  \/ \E r \in Rids : DisconnectSettled(r) /\ UNCHANGED << vars, apiVars >>

SpecAudio == Init /\ [][AudioNext]_allVars

\* The transfer form, the console's request and the transfer proxy.
SpecApi == InitLiveRoom /\ [][ApiNext]_allVars

ProxyNext ==
  \/ \E h \in Handlers : \E m \in Methods : \E isNull \in BOOLEAN : \E b \in ClientBodies(h) :
       ClientRequest(h, m, isNull, b) /\ UNCHANGED lrVars
  \/ HandlerRuns /\ UNCHANGED lrVars
  \/ \E o \in BackendOutcomes : BackendSettles(o) /\ UNCHANGED lrVars

\* The three proxies serving any client.
SpecProxy == InitLiveRoom /\ [][ProxyNext]_allVars

TypeOK ==
  /\ isTransferring \in BOOLEAN /\ isMovingCaller \in BOOLEAN /\ isSpeaking \in BOOLEAN
  /\ transferStep \in Steps
  /\ transferData \in {NULL} \cup Tids
  /\ secondaryRoomRef \in {NULL} \cup Tids
  /\ nextTid \in 1..(MaxTransfers + 1)
  /\ handoffMic \in [Tids -> BOOLEAN]
  /\ mounted \in BOOLEAN /\ effectLive \in BOOLEAN
  /\ isConnecting \in BOOLEAN /\ isConnected \in BOOLEAN /\ localAudioEnabled \in BOOLEAN
  /\ room \in {NULL} \cup Rids /\ roomRef \in {NULL} \cup Rids
  /\ error \in {NoError, ConnectFailedError, MicrophoneError}
  /\ participants \subseteq Participants
  /\ nextRid \in 1..(MaxRooms + 1)
  /\ tog \in {"idle", "enabling", "disabling"}

(***************************************************************************)
(* Properties                                                              *)
(***************************************************************************)
\* The acknowledgement of t's relocation has arrived (the simulated move ran).
Acked(t) == mv[t] \in {"cleanupTimer", "done"}

\* LegacyComplete has been invoked for t.
LegacyInvoked(t) == lg[t] # "idle"

\* Speech Delivery of t has reached a terminal outcome.
SpeechTerminal(t) == utt[t] \in {"ended", "errored"}

\* The handoff connect of t has reported Connected.
HandoffConnectedOnce(t) == rooms[t] \in {"connected", "closed"}

InProgressPhases ==
  { "Initiating", "AwaitingHandoffConnect", "SummaryPending", "Speaking",
    "ReadyToComplete", "RelocatingCaller", "RelocationFailed" }

\* C1: the console has disconnected the source handle on behalf of transfer t
\* if and only if t has passed through RelocatingCaller with an
\* acknowledgement or through LegacyComplete.
C1_SourceDisconnectIffAckOrLegacy ==
  \A t \in Tids : (srcDiscBy[t] # "none") <=> (Acked(t) \/ LegacyInvoked(t))

C3_MintFailureLeavesRooms ==
  [][\A t \in Tids :
       /\ (mv[t] = "fetch" /\ mv'[t] = "failed") =>
            /\ transferError' # ""
            /\ rooms' = rooms
            /\ secondaryRoomRef' = secondaryRoomRef
            /\ primaryConn' = primaryConn
            /\ srcDiscBy' = srcDiscBy
       /\ (mv[t] = "failed" /\ mv'[t] # "failed") =>
            (mv'[t] = "fetch" /\ isMovingCaller' /\ ~isMovingCaller)
    ]_vars

\* C3 witness: a failed caller-token request, its error shown, both rooms
\* still connected.
C3_Witness ==
  \E t \in Tids : /\ mv[t] = "failed"
                  /\ transferError \in { MoveCallerError(m) : m \in MoveCallerFailures }
                  /\ rooms[t] = "connected"
                  /\ primaryConn = "connected"

\* C4: after a failed relocation attempt the transfer is still in
\* ReadyToComplete: the RelocateCaller and LegacyComplete buttons are shown
\* and enabled again.
C4_RetryAvailableAfterFailedRelocation ==
  [][\A t \in Tids :
       (mv[t] = "fetch" /\ mv'[t] = "failed" /\ cancelledAt[t] = "no" /\ isTransferring)
         => (CompletionButtonsShown' /\ MoveCallerEnabled')
    ]_vars

\* C5: when the utterance of a running transfer signals an error, the
\* transfer moves on to ReadyToComplete: the completion buttons are shown,
\* the handoff handle is still connected and the summary is still stored.
C5_SpeechErrorMovesToReady ==
  [][\A t \in Tids :
       (utt[t] = "speaking" /\ utt'[t] = "errored" /\ cancelledAt[t] = "no"
          /\ isTransferring /\ transferData = t)
         => (CompletionButtonsShown' /\ rooms'[t] = "connected" /\ transferData' = t)
    ]_vars

\* C6: Speech Delivery of t is scheduled, and starts, only after the handoff
\* handle of t has reported Connected.
C6_SpeechAfterHandoffConnect ==
  \A t \in Tids :
    (pc[t] \in {"speechTimer", "done"} \/ utt[t] # "none") => HandoffConnectedOnce(t)

\* C6 witness: the summary of t is being spoken in its connected handoff room.
C6_Witness ==
  \E t \in Tids : utt[t] = "speaking" /\ rooms[t] = "connected"

\* C7: relocation of t (moveCallerToAgentB), and likewise LegacyComplete,
\* starts only after Speech Delivery of t has completed or failed.
C7_RelocationAfterSpeech ==
  \A t \in Tids : (mv[t] # "idle" \/ LegacyInvoked(t)) => SpeechTerminal(t)

\* C8: after cancelTransfer at or after the handoff connect, the handoff
\* handle is disconnected, nothing is being spoken, and no Speech Delivery of
\* the cancelled transfer starts afterwards.
C8_CancelStopsSpeech ==
  \A t \in Tids :
    cancelledAt[t] \in {"SummaryPending", "Speaking", "ReadyToComplete"} =>
      /\ rooms[t] = "closed"
      /\ utt[t] # "speaking"
      /\ ~lateSpeech[t]

\* C9: after cancelTransfer during Initiating or AwaitingHandoffConnect (and
\* before any later transfer is started) no handoff handle of the cancelled
\* transfer is connecting or connected, its summary is never spoken, and the
\* progress flag, the step text and the transfer data stay cleared.
C9_CancelWhilePending ==
  \A t \in Tids :
    (cancelledAt[t] \in {"Initiating", "AwaitingHandoffConnect"} /\ t = CurTid) =>
      /\ rooms[t] \notin {"connecting", "connected"}
      /\ utt[t] = "none"
      /\ ~isTransferring
      /\ transferStep = StepNone
      /\ transferData = NULL

\* C10: when the transfer request of t fails, the failure reason is shown,
\* and for that transfer no handoff handle is ever opened, no Speech Delivery
\* is scheduled, no caller credential is requested and the source handle is
\* not disconnected.
C10_RequestFailureHasNoSideEffects ==
  [][\A t \in Tids :
       /\ pc[t] = "fetchFailed" => pc'[t] = "fetchFailed"
       /\ pc'[t] = "fetchFailed" =>
            /\ pc[t] # "fetchFailed" =>
                 (pc[t] = "fetch" /\ transferError' # "" /\ transferError' \in TransferFailures)
            /\ rooms'[t] = "none"
            /\ secondaryRoomRef' # t
            /\ utt'[t] = "none"
            /\ mv'[t] = "idle"
            /\ srcDiscBy'[t] = "none"
    ]_vars

\* C10 witness: the request of t has failed and its reason is on display.
C10_Witness ==
  \E t \in Tids : /\ pc[t] = "fetchFailed"
                  /\ transferError \in TransferFailures
                  /\ isTransferring
                  /\ rooms[t] = "none"

\* C11: when the handoff connect of t fails, the activation of t stops there:
\* the error is shown, the handoff room is not connected, the microphone of
\* the handoff room is never enabled and no summary is ever spoken for t,
\* and the step leaves the source connection as it was and never has the
\* console disconnect it.
C11_ConnectFailureAborts ==
  [][\A t \in Tids :
       /\ pc[t] = "connectFailed" => pc'[t] = "connectFailed"
       /\ pc'[t] = "connectFailed" =>
            /\ pc[t] # "connectFailed" =>
                 /\ pc[t] = "connect"
                 /\ transferError' = ConnectError /\ transferError' # ""
                 /\ primaryConn' = primaryConn
            /\ rooms'[t] \in {"failed", "aborted"}
            /\ utt'[t] = "none"
            /\ srcDiscBy'[t] = "none"
    ]_vars

\* C11 witness: the handoff connect of t was refused, the error is on
\* display and the source connection is still up.
C11_Witness ==
  \E t \in Tids : /\ pc[t] = "connectFailed"
                  /\ rooms[t] = "failed"
                  /\ transferError = ConnectError
                  /\ utt[t] = "none"
                  /\ primaryConn = "connected"

\* The states in which a completion action is valid: the summary has been
\* delivered (or has failed), and no relocation or completion is under way.
CompletionAccepted == { "ReadyToComplete", "RelocationFailed" }

\* C12: a LegacyComplete or a RelocateCaller takes effect on a transfer only
\* when that transfer is ready to complete, and a new transfer starts only
\* when the console shows none in progress.
C12_InvalidActionsRejected ==
  [][/\ \A t \in Tids :
          /\ (lg[t] = "idle" /\ lg'[t] # "idle") => Phase(t) \in CompletionAccepted
          /\ (mv[t] # "fetch" /\ mv'[t] = "fetch") => Phase(t) \in CompletionAccepted
     /\ nextTid' # nextTid => ~isTransferring
    ]_vars

\* C13: the step that runs completeTransfer leaves the source connection
\* disconnected, and the step of its 5000 ms timer leaves the handoff room
\* of that transfer disconnected and no transfer in progress.
C13_LegacyCompleteOrder ==
  [][\A t \in Tids :
       /\ (lg[t] = "idle" /\ lg'[t] = "timer") => primaryConn' = "disconnected"
       /\ (lg[t] = "timer" /\ lg'[t] = "done") =>
            /\ primaryConn = "disconnected"
            /\ rooms'[t] \notin {"connecting", "connected"}
            /\ ~isTransferring'
    ]_vars

\* C14: a relocation whose caller token was minted proceeds in order: the
\* token is requested for the stored transfer, the acknowledgement timer
\* follows the mint, the step of the acknowledgement leaves the source
\* connection disconnected, and the step of the 3000 ms timer leaves the
\* handoff room disconnected and no transfer in progress.
C14_RelocationOrder ==
  [][\A t \in Tids :
       /\ (mv[t] # "fetch" /\ mv'[t] = "fetch") => transferData = t
       /\ mv'[t] = "ackTimer" => mv[t] \in {"fetch", "ackTimer"}
       /\ (mv[t] = "ackTimer" /\ mv'[t] = "cleanupTimer") => primaryConn' = "disconnected"
       /\ (mv[t] = "cleanupTimer" /\ mv'[t] = "done") =>
            /\ primaryConn = "disconnected"
            /\ rooms'[t] \notin {"connecting", "connected"}
            /\ ~isTransferring'
    ]_vars

\* C15: for a transfer that is not cancelled and whose handoff room has
\* connected, the step that runs speakSummary leaves the status at Speaking,
\* and the step in which its utterance ends leaves the status at
\* ReadyToComplete with the two completion actions on offer.
C15_SpeakingThenReady ==
  [][\A t \in Tids : (cancelledAt[t] = "no" /\ HandoffConnectedOnce(t)) =>
       /\ (pc[t] = "speechTimer" /\ pc'[t] = "done") => transferStep' = StepSpeaking
       /\ (utt[t] = "speaking" /\ utt'[t] = "ended") =>
            (transferStep' = StepReady /\ CompletionButtonsShown')
    ]_vars

\* A transfer is Completed once the clean-up timer of either path has run.
Completed(t) == lg[t] = "done" \/ mv[t] = "done"

\* C18: a Completed transfer has its handoff room disconnected and is no
\* longer the stored transfer data.
C18_CompletedIsCleared ==
  \A t \in Tids : Completed(t) =>
    /\ rooms[t] \notin {"connecting", "connected"}
    /\ transferData # t

\* C16: a Completed transfer has had its handoff room connected and its
\* summary delivered or failed before the completion action was taken, and
\* the step that starts a transfer leaves it in progress, not Completed.
C16_NoSkippedStates ==
  [][\A t \in Tids :
       /\ Completed(t)' => (pc'[t] = "done" /\ HandoffConnectedOnce(t)' /\ SpeechTerminal(t)')
       /\ (lg[t] = "idle" /\ lg'[t] = "timer") => SpeechTerminal(t)
       /\ (mv[t] = "idle" /\ mv'[t] = "fetch") => SpeechTerminal(t)
       /\ (pc[t] = "idle" /\ pc'[t] # "idle") =>
            (pc'[t] = "fetch" /\ isTransferring' /\ ~Completed(t)')
    ]_vars

C19_OneLiveConnection == Cardinality(LiveRooms(roomState)) <= 1

\* C20: disconnectFromRoom run on the state left by disconnectFromRoom
\* changes nothing; run on a component whose ref holds no Room it changes
\* nothing either; and it never sets the error state.
C20_DisconnectIdempotent ==
  LET once == DisconnectOutcome(LiveRoomState)
  IN /\ DisconnectOutcome(once) = once
     /\ once.roomRef = NULL
     /\ once.error = error
     /\ roomRef = NULL => once = LiveRoomState

\* C20 witness: a disconnectFromRoom has run to its end on a room that was
\* connected, and the ref is empty.
C20_Witness ==
  \E r \in Rids : /\ dpc[r] = "done"
                  /\ roomState[r] = "disconnected"
                  /\ roomRef = NULL
                  /\ ~isConnected

\* The source connection is dropped by the provider in this step: the
\* console itself has not called disconnect on the source handle.
ProviderDropsSourceStep ==
  /\ primaryConn = "connected"
  /\ primaryConn' = "disconnected"
  /\ srcDiscBy' = srcDiscBy

\* C21: when the provider drops the source connection while transfer t is
\* in progress and not cancelled, the step leaves t no longer in progress,
\* and from then on t starts no completion or relocation.
C21_SourceDropFailsTransfer ==
  [][\A t \in Tids :
       /\ (ProviderDropsSourceStep /\ cancelledAt[t] = "no" /\ Phase(t) \in InProgressPhases)
            => Phase(t)' \notin InProgressPhases
       /\ (primaryConn = "disconnected" /\ cancelledAt[t] = "no"
             /\ Phase(t) \in InProgressPhases)
            => (lg'[t] = lg[t] /\ mv'[t] = mv[t])
    ]_vars

\* A timer or delayed callback of transfer t runs in this step.
TimerStep(t) ==
  \/ pc[t] = "speechTimer" /\ pc'[t] = "done"
  \/ mv[t] = "ackTimer" /\ mv'[t] = "cleanupTimer"
  \/ mv[t] = "cleanupTimer" /\ mv'[t] = "done"
  \/ lg[t] = "timer" /\ lg'[t] = "done"

\* C22: a timer step of transfer t leaves alone every transfer u started
\* after t: the room of u keeps its state, no utterance is created while u
\* is the current transfer, and the progress flag, the status text and the
\* stored transfer data of the console are untouched while u is current.
C22_TransfersDoNotInterfere ==
  [][\A t \in Tids : \A u \in Tids :
       (u > t /\ u < nextTid /\ TimerStep(t)) =>
         /\ rooms'[u] = rooms[u]
         /\ u = CurTid =>
              /\ utt' = utt
              /\ isTransferring' = isTransferring
              /\ transferStep' = transferStep
              /\ transferData' = transferData
    ]_vars

\* C26: a completion step that disconnects the handoff room of t finds the
\* source-handle disconnect of t already performed.
C26_SourceBeforeHandoff ==
  [][\A t \in Tids :
       ( /\ (lg[t] = "timer" /\ lg'[t] = "done") \/ (mv[t] = "cleanupTimer" /\ mv'[t] = "done")
         /\ rooms[t] = "connected" /\ rooms'[t] = "closed" )
       => srcDiscBy[t] # "none"
    ]_vars

\* C27: once the clean-up timer of either completion path has run for t,
\* the handoff room of t is released for good, and t, while it is the
\* latest transfer, is not in progress.
C27_CompletionReleasesHandoff ==
  \A t \in Tids : Completed(t) =>
    /\ rooms[t] \notin {"connecting", "connected"}
    /\ t = CurTid => ~isTransferring

\* C28: the Disconnected listener of any Room of a mounted LiveRoom, run
\* in any state, leaves isConnected false and the participant list empty.
C28_DisconnectedClearsState ==
  mounted => \A r \in Rids :
    LET s == DisconnectedHandler(LiveRoomState, r)
    IN ~s.isConnected /\ s.participants = {}

\* The provider dropped Room r of a mounted component: the event was
\* handled, no disconnect was called on r.
C28_Witness ==
  \E r \in Rids : /\ mounted /\ roomState[r] = "disconnected" /\ dpc[r] = "idle"
                  /\ ~isConnected /\ participants = {}

\* C29: when connectToRoom finishes in a mounted component, isConnecting
\* is false; after a failed connect isConnected is false, the connection
\* error is recorded and local audio is not enabled; after a successful
\* one whose Room is still connected, isConnected is true and no error is
\* recorded.
C29_ConnectOutcome ==
  [][\A r \in Rids :
       (mounted /\ cpc[r] # "done" /\ cpc'[r] = "done") =>
         /\ ~isConnecting'
         /\ cpc[r] = "connect" =>
              ~isConnected' /\ error' = ConnectFailedError /\ ~localAudioEnabled'
         /\ (cpc[r] = "mic" /\ roomState'[r] = "connected") =>
              isConnected' /\ error' = NoError
    ]_lrVars

\* One of transcript and summary is in body b, chosen by the notes: the
\* trimmed notes as transcript when they are not blank, else the default
\* summary.
OneOfTranscriptSummary(b, notes) ==
  /\ ("transcript" \in DOMAIN b) # ("summary" \in DOMAIN b)
  /\ IF Trim(notes) # << >>
       THEN Field(b, "transcript") = Trim(notes) /\ "summary" \notin DOMAIN b
       ELSE Field(b, "summary") = DefaultSummary /\ "transcript" \notin DOMAIN b

\* C23: the transfer request of the console carries exactly one of
\* transcript and summary, the trimmed notes when they are not blank and
\* the default summary otherwise, and so does the body the proxy posts to
\* the backend for it.
C23_ExactlyOneOfTranscriptSummary ==
  req.origin = "console" =>
    /\ OneOfTranscriptSummary(req.body, transcript)
    /\ backendCalls = 1 => OneOfTranscriptSummary(backendReq, transcript)

\* Notes with a blank around them were sent and forwarded to the backend.
C23_Witness ==
  /\ req.origin = "console" /\ hpc = "done" /\ backendCalls = 1
  /\ Trim(transcript) # << >> /\ Trim(transcript) # transcript
  /\ backendReq.transcript = Trim(transcript)

C30_OneResponsePerRequest ==
  req.origin # "none" =>
    /\ backendCalls <= 1
    /\ Len(responses) = (IF hpc = "done" THEN 1 ELSE 0)
    /\ hpc = "done" =>
         LET st == responses[1].status
         IN IF req.method # "POST" THEN st = 405 /\ backendCalls = 0
            ELSE IF MissingRequired(req) THEN st = 400 /\ backendCalls = 0
            ELSE /\ backendCalls = 1
                 /\ CASE backendOutcome = "ok" -> st = 200
                      [] backendOutcome \in {"errorDetail", "errorNoDetail"} -> st = 502
                      [] backendOutcome = "unreachable" -> st = 503
                      [] OTHER -> st = 500

\* C25: when the microphone attempt made after a successful connect
\* settles without the microphone enabled, the Room stays as it was and no
\* error is recorded: in the handoff Room the activation goes on to set the
\* speech timer, with the status text and the progress flag untouched; in
\* LiveRoom isConnected and error are untouched.
C25_MicrophoneBestEffort ==
  /\ [][\A t \in Tids :
          (pc[t] = "mic" /\ pc'[t] # "mic" /\ ~handoffMic'[t]) =>
            /\ pc'[t] = "speechTimer"
            /\ rooms' = rooms
            /\ transferError' = transferError /\ transferStep' = transferStep
            /\ isTransferring' = isTransferring
       ]_vars
  /\ [][\A r \in Rids :
          (cpc[r] = "mic" /\ cpc'[r] = "done" /\ localAudioEnabled' = localAudioEnabled) =>
            /\ roomState' = roomState
            /\ isConnected' = isConnected /\ error' = error
       ]_lrVars

\* The summary is being spoken in a handoff Room whose microphone failed,
\* and LiveRoom is connected, without error, with its microphone not enabled.
C25_Witness ==
  /\ \E t \in Tids : /\ utt[t] = "speaking" /\ ~handoffMic[t] /\ rooms[t] = "connected"
                     /\ transferError = "" /\ isTransferring
  /\ \E r \in Rids : /\ mounted /\ cpc[r] = "done" /\ roomState[r] = "connected"
                     /\ isConnected /\ ~localAudioEnabled /\ error = NoError

\* setTransferError('Missing transfer data or caller identity') runs in this step.
MoveCallerRefusedStep ==
  /\ transferError' = "Missing transfer data or caller identity"
  /\ transferError' # transferError

\* C31: a caller-token request is started only with stored transfer data
\* and a caller identity that is not blank; and the step in which
\* moveCallerToAgentB reports its error happens without one of them and
\* changes nothing else: isMovingCaller stays false, no request is started,
\* no Room and no source handle is disconnected.
C31_MoveCallerGuard ==
  [][ /\ (\E t \in Tids : mv'[t] = "fetch" /\ mv[t] # "fetch")
           => (transferData # NULL /\ Trimmed(callerIdentity) # "")
      /\ MoveCallerRefusedStep =>
           /\ transferData = NULL \/ Trimmed(callerIdentity) = ""
           /\ ~isMovingCaller'
           /\ mv' = mv /\ rooms' = rooms /\ primaryConn' = primaryConn
           /\ srcDiscBy' = srcDiscBy /\ secondaryRoomRef' = secondaryRoomRef
           /\ transferStep' = transferStep /\ isTransferring' = isTransferring
           /\ transferData' = transferData
    ]_vars

\* The error of the guard is on screen, nothing is stored and no
\* relocation was started.
C31_Witness ==
  /\ transferError = "Missing transfer data or caller identity"
  /\ transferData = NULL /\ ~isMovingCaller
  /\ \A t \in Tids : mv[t] = "idle"

\* C32: while no transfer is in progress, no Room the console opened for a
\* handoff is connected.
C32_IdleHasNoHandoffConnection ==
  ~isTransferring => \A t \in Tids : rooms[t] # "connected"

\* No activation of LiveRoom is waiting: every connectToRoom and every
\* disconnectFromRoom has run to its end, and no closed Room still owes its
\* Disconnected event.
LiveRoomQuiet ==
  /\ \A r \in Rids : cpc[r] \in {"idle", "done"} /\ dpc[r] # "await"
  /\ \A r \in Rids : roomState[r] # "closing"

\* C33: once the activations of LiveRoom have settled, a mounted component
\* whose effect last called connectToRoom has roomRef on the Room created
\* last, and an unmounted component has no Room left connecting or
\* connected.
C33_CleanupKeepsLatestRoom ==
  LiveRoomQuiet =>
    /\ (mounted /\ effectLive) => roomRef = nextRid - 1
    /\ ~mounted => LiveRooms(roomState) = {}

\* C34: isConnecting and isConnected are never both true.
C34_ConnectingExcludesConnected ==
  ~(isConnecting /\ isConnected)

\* C35: localAudioEnabled is true only while the handle is connected.
C35_AudioOnlyWhileConnected ==
  localAudioEnabled => isConnected

====
